---- MODULE Spec2Model ----
(***************************************************************************)
(* Model of src/error.rs of rs-multer: the Error enum, its Display and     *)
(* Debug renderings, Error::source and PartialEq::eq.                      *)
(*                                                                         *)
(* A text is a sequence of characters.  A character is a one-character     *)
(* string; the two non-ASCII characters used are written as the tokens     *)
(* "U+2013" (EN DASH, printable) and "U+0085" (NEXT LINE, a control        *)
(* character that breaks a line).                                          *)
(***************************************************************************)
EXTENDS Integers, Sequences, FiniteSets

\* Longest generated field name / raw header name, in characters.
MaxNameLen == 2
\* Limits 0..MaxLimit are generated (besides the multi-digit samples).
MaxLimit == 2

----------------------------------------------------------------------------
\* Option<T>
None == <<>>
Some(x) == <<x>>

\* Fault model: unwrap_or_default(), the empty text for an absent name.
UnwrapOrDefault(opt, default) == IF opt = None THEN <<>> ELSE opt[1]

\* Option::as_deref().unwrap_or(default)
UnwrapOr(opt, default) == IF opt = None THEN default ELSE opt[1]

\* Characters the generated names are built from: a plain letter, the double
\* quote and the line feed.
Alphabet == {"a", "\"", "\n"}

\* All sequences over S of length 0..n.
BoundedSeq(S, n) == UNION {[1..k -> S] : k \in 0..n}

\* Sample names: "avatar", "<unknown>", "X<EN DASH>Bad", a name made of a
\* backslash, a carriage return and a tab, and a name holding NEXT LINE.
SampleNames ==
    { <<"a","v","a","t","a","r">>,
      <<"<","u","n","k","n","o","w","n",">">>,
      <<"X","U+2013","B","a","d">>,
      <<"\\","\r","\t">>,
      <<"a","U+0085","b">> }

\* String payloads (field_name, name).
Names == BoundedSeq(Alphabet, MaxNameLen) \cup SampleNames

\* u64 payloads (limit).
Limits == (0..MaxLimit) \cup {10, 1024}

\* Vec<u8> payloads (value of DecodeHeaderValue).
ByteValues == {<<>>, <<34, 10>>}

\* The wrapped failures: opaque objects, told apart by identity.
Causes == {"cause1", "cause2"}

\* What a wrapped failure renders to by its own Display implementation.
CauseText(c) ==
    IF c = "cause1" THEN <<"i","n","v","a","l","i","d"," ","t","o","k","e","n">>
    ELSE <<"E","O","F">>

\* pub enum Error: every value of the enum, within the bounds.  json is the
\* cargo feature "json" of the build.
Error(json) ==
    [variant : {"UnknownField"}, field_name : {None} \cup {Some(n) : n \in Names}]
    \cup [variant : {"IncompleteFieldData"},
          field_name : {None} \cup {Some(n) : n \in Names}]
    \cup [variant : {"IncompleteHeaders"}]
    \cup [variant : {"ReadHeaderFailed"}, cause : Causes]
    \cup [variant : {"DecodeHeaderName"}, name : Names, cause : Causes]
    \cup [variant : {"DecodeHeaderValue"}, value : ByteValues, cause : Causes]
    \cup [variant : {"IncompleteStream"}]
    \cup [variant : {"FieldSizeExceeded"}, limit : Limits,
          field_name : {None} \cup {Some(n) : n \in Names}]
    \cup [variant : {"StreamSizeExceeded"}, limit : Limits]
    \cup [variant : {"StreamReadFailed"}, cause : Causes]
    \cup [variant : {"LockFailure"}]
    \cup [variant : {"NoMultipart"}]
    \cup [variant : {"DecodeContentType"}, cause : Causes]
    \cup [variant : {"NoBoundary"}]
    \cup [variant : {"MultipleBoundaries"}]
    \cup (IF json THEN [variant : {"DecodeJson"}, cause : Causes] ELSE {})

----------------------------------------------------------------------------
\* The literal pieces of the format strings of Display::fmt.

\* error.rs:75  "unknown field received: "
UnknownFieldPrefix ==
    <<"u","n","k","n","o","w","n"," ","f","i","e","l","d"," ","r","e","c","e",
      "i","v","e","d",":"," ">>

\* error.rs:79  "field "
FieldPrefix ==
    <<"f","i","e","l","d"," ">>

\* error.rs:79  " received with incomplete data"
IncompleteDataSuffix ==
    <<" ","r","e","c","e","i","v","e","d"," ","w","i","t","h"," ","i","n","c",
      "o","m","p","l","e","t","e"," ","d","a","t","a">>

\* error.rs:82  "failed to decode field's raw header name: "
DecodeHeaderNamePrefix ==
    <<"f","a","i","l","e","d"," ","t","o"," ","d","e","c","o","d","e"," ","f",
      "i","e","l","d","'","s"," ","r","a","w"," ","h","e","a","d","e","r"," ",
      "n","a","m","e",":"," ">>

\* error.rs:85  "failed to decode field's raw header value"
DecodeHeaderValueText ==
    <<"f","a","i","l","e","d"," ","t","o"," ","d","e","c","o","d","e"," ","f",
      "i","e","l","d","'","s"," ","r","a","w"," ","h","e","a","d","e","r"," ",
      "v","a","l","u","e">>

\* error.rs:89  " exceeded the size limit: "
ExceededInfix ==
    <<" ","e","x","c","e","e","d","e","d"," ","t","h","e"," ","s","i","z","e",
      " ","l","i","m","i","t",":"," ">>

\* error.rs:89  " bytes"
BytesSuffix ==
    <<" ","b","y","t","e","s">>

\* error.rs:92  "stream size exceeded limit: "
StreamSizePrefix ==
    <<"s","t","r","e","a","m"," ","s","i","z","e"," ","e","x","c","e","e","d",
      "e","d"," ","l","i","m","i","t",":"," ">>

\* error.rs:94  "failed to read headers"
ReadHeaderFailedText ==
    <<"f","a","i","l","e","d"," ","t","o"," ","r","e","a","d"," ","h","e","a",
      "d","e","r","s">>

\* Fault model: the phrase of ReadHeaderFailed pasted into StreamReadFailed.
StreamReadFailedTextPasted == ReadHeaderFailedText

\* error.rs:95  "failed to read stream"
StreamReadFailedText ==
    <<"f","a","i","l","e","d"," ","t","o"," ","r","e","a","d"," ","s","t","r",
      "e","a","m">>

\* error.rs:96  "failed to decode Content-Type"
DecodeContentTypeText ==
    <<"f","a","i","l","e","d"," ","t","o"," ","d","e","c","o","d","e"," ","C",
      "o","n","t","e","n","t","-","T","y","p","e">>

\* error.rs:97  "failed to read field complete headers"
IncompleteHeadersText ==
    <<"f","a","i","l","e","d"," ","t","o"," ","r","e","a","d"," ","f","i","e",
      "l","d"," ","c","o","m","p","l","e","t","e"," ","h","e","a","d","e","r",
      "s">>

\* error.rs:98  "incomplete multipart stream"
IncompleteStreamText ==
    <<"i","n","c","o","m","p","l","e","t","e"," ","m","u","l","t","i","p","a",
      "r","t"," ","s","t","r","e","a","m">>

\* error.rs:99  "failed to lock multipart state"
LockFailureText ==
    <<"f","a","i","l","e","d"," ","t","o"," ","l","o","c","k"," ","m","u","l",
      "t","i","p","a","r","t"," ","s","t","a","t","e">>

\* error.rs:100  "Content-Type is not multipart/form-data"
NoMultipartText ==
    <<"C","o","n","t","e","n","t","-","T","y","p","e"," ","i","s"," ","n","o",
      "t"," ","m","u","l","t","i","p","a","r","t","/","f","o","r","m","-","d",
      "a","t","a">>

\* error.rs:101  "multipart boundary not found in Content-Type"
NoBoundaryText ==
    <<"m","u","l","t","i","p","a","r","t"," ","b","o","u","n","d","a","r","y",
      " ","n","o","t"," ","f","o","u","n","d"," ","i","n"," ","C","o","n","t",
      "e","n","t","-","T","y","p","e">>

\* error.rs:102  "multipart boundary found multiple times in Content-Type"
MultipleBoundariesText ==
    <<"m","u","l","t","i","p","a","r","t"," ","b","o","u","n","d","a","r","y",
      " ","f","o","u","n","d"," ","m","u","l","t","i","p","l","e"," ","t","i",
      "m","e","s"," ","i","n"," ","C","o","n","t","e","n","t","-","T","y","p",
      "e">>

\* error.rs:104  "failed to decode field data as JSON"
DecodeJsonText ==
    <<"f","a","i","l","e","d"," ","t","o"," ","d","e","c","o","d","e"," ","f",
      "i","e","l","d"," ","d","a","t","a"," ","a","s"," ","J","S","O","N">>

\* error.rs:74  "<unknown>"
UnknownPlaceholder ==
    <<"<","u","n","k","n","o","w","n",">">>
----------------------------------------------------------------------------
\* char::escape_debug as used by <str as Debug>::fmt: the double quote and
\* the backslash get a backslash, \t \r \n are spelled out, a character that
\* is not printable becomes \u{hex}; anything else (the single quote and
\* printable non-ASCII included) is written as it is.
\* Fault model: char::escape_default, which also escapes printable non-ASCII.
EscapeDefault(c) ==
    CASE c = "\t" -> <<"\\", "t">>
      [] c = "\r" -> <<"\\", "r">>
      [] c = "\n" -> <<"\\", "n">>
      [] c = "\\" -> <<"\\", "\\">>
      [] c = "\"" -> <<"\\", "\"">>
      [] c = "U+0085" -> <<"\\", "u", "{", "8", "5", "}">>
      [] c = "U+2013" -> <<"\\", "u", "{", "2", "0", "1", "3", "}">>
      [] OTHER -> <<c>>

EscapeDebug(c) ==
    CASE c = "\t" -> <<"\\", "t">>
      [] c = "\r" -> <<"\\", "r">>
      [] c = "\n" -> <<"\\", "n">>
      [] c = "\\" -> <<"\\", "\\">>
      [] c = "\"" -> <<"\\", "\"">>
      [] c = "U+0085" -> <<"\\", "u", "{", "8", "5", "}">>
      [] OTHER -> <<c>>

RECURSIVE EscapeStr(_)
EscapeStr(s) ==
    IF s = <<>> THEN <<>> ELSE EscapeDebug(Head(s)) \o EscapeStr(Tail(s))

\* Fault model: "{}" of a &str, the characters as they are.
FmtDisplayStr(s) == s

\* "{:?}" of a &str: the escaped characters between double quotes.
FmtDebugStr(s) == <<"\"">> \o EscapeStr(s) \o <<"\"">>

Digit(d) == <<"0","1","2","3","4","5","6","7","8","9">>[d + 1]

\* Fault model: the digits come out least significant first.
RECURSIVE FmtU64Reversed(_)
FmtU64Reversed(n) ==
    IF n < 10 THEN <<Digit(n)>>
    ELSE <<Digit(n % 10)>> \o FmtU64Reversed(n \div 10)

\* "{}" of a u64: its decimal digits, no sign, no leading zero.
RECURSIVE FmtU64(_)
FmtU64(n) ==
    IF n < 10 THEN <<Digit(n)>> ELSE FmtU64(n \div 10) \o <<Digit(n % 10)>>

\* Fault model: ReadHeaderFailed echoes the text of its cause, DecodeHeaderValue
\* the length of the raw value.
DisplayFmtEcho(e) ==
    CASE e.variant = "UnknownField" ->
           LET name == UnwrapOr(e.field_name, UnknownPlaceholder)
           IN  UnknownFieldPrefix \o FmtDebugStr(name)
      [] e.variant = "IncompleteFieldData" ->
           LET name == UnwrapOr(e.field_name, UnknownPlaceholder)
           IN  FieldPrefix \o FmtDebugStr(name) \o IncompleteDataSuffix
      [] e.variant = "DecodeHeaderName" ->
           DecodeHeaderNamePrefix \o FmtDebugStr(e.name)
      [] e.variant = "DecodeHeaderValue" ->
           DecodeHeaderValueText \o <<":", " ">> \o FmtU64(Len(e.value))
      [] e.variant = "FieldSizeExceeded" ->
           LET name == UnwrapOr(e.field_name, UnknownPlaceholder)
           IN  FieldPrefix \o FmtDebugStr(name) \o ExceededInfix
                 \o FmtU64(e.limit) \o BytesSuffix
      [] e.variant = "StreamSizeExceeded" ->
           StreamSizePrefix \o FmtU64(e.limit) \o BytesSuffix
      [] e.variant = "ReadHeaderFailed" ->
           ReadHeaderFailedText \o <<":", " ">> \o CauseText(e.cause)
      [] e.variant = "StreamReadFailed" -> StreamReadFailedText
      [] e.variant = "DecodeContentType" -> DecodeContentTypeText
      [] e.variant = "IncompleteHeaders" -> IncompleteHeadersText
      [] e.variant = "IncompleteStream" -> IncompleteStreamText
      [] e.variant = "LockFailure" -> LockFailureText
      [] e.variant = "NoMultipart" -> NoMultipartText
      [] e.variant = "NoBoundary" -> NoBoundaryText
      [] e.variant = "MultipleBoundaries" -> MultipleBoundariesText
      [] e.variant = "DecodeJson" -> DecodeJsonText

\* impl Display for Error :: fmt
DisplayFmt(e) ==
    CASE e.variant = "UnknownField" ->
           LET name == UnwrapOr(e.field_name, UnknownPlaceholder)
           IN  UnknownFieldPrefix \o FmtDebugStr(name)
      [] e.variant = "IncompleteFieldData" ->
           LET name == UnwrapOr(e.field_name, UnknownPlaceholder)
           IN  FieldPrefix \o FmtDebugStr(name) \o IncompleteDataSuffix
      [] e.variant = "DecodeHeaderName" ->
           DecodeHeaderNamePrefix \o FmtDebugStr(e.name)
      [] e.variant = "DecodeHeaderValue" -> DecodeHeaderValueText
      [] e.variant = "FieldSizeExceeded" ->
           LET name == UnwrapOr(e.field_name, UnknownPlaceholder)
           IN  FieldPrefix \o FmtDebugStr(name) \o ExceededInfix
                 \o FmtU64(e.limit) \o BytesSuffix
      [] e.variant = "StreamSizeExceeded" ->
           StreamSizePrefix \o FmtU64(e.limit) \o BytesSuffix
      [] e.variant = "ReadHeaderFailed" -> ReadHeaderFailedText
      [] e.variant = "StreamReadFailed" -> StreamReadFailedText
      [] e.variant = "DecodeContentType" -> DecodeContentTypeText
      [] e.variant = "IncompleteHeaders" -> IncompleteHeadersText
      [] e.variant = "IncompleteStream" -> IncompleteStreamText
      [] e.variant = "LockFailure" -> LockFailureText
      [] e.variant = "NoMultipart" -> NoMultipartText
      [] e.variant = "NoBoundary" -> NoBoundaryText
      [] e.variant = "MultipleBoundaries" -> MultipleBoundariesText
      [] e.variant = "DecodeJson" -> DecodeJsonText

\* Fault model: a derived, structured Debug for the unit variants.
DebugFmtDerived(e) ==
    CASE e.variant = "NoBoundary" -> <<"N","o","B","o","u","n","d","a","r","y">>
      [] e.variant = "LockFailure" ->
           <<"L","o","c","k","F","a","i","l","u","r","e">>
      [] OTHER -> DisplayFmt(e)

\* impl Debug for Error :: fmt
DebugFmt(e) == DisplayFmt(e)

\* ToString::to_string, which runs Display::fmt into a fresh String.
to_string(e) == DisplayFmt(e)

\* Fault model: the two boxed causes of the header decoding variants are dropped.
SourceDropped(e) ==
    CASE e.variant \in {"ReadHeaderFailed", "StreamReadFailed",
                        "DecodeContentType", "DecodeJson"} -> Some(e.cause)
      [] OTHER -> None

\* impl std::error::Error for Error :: source
Source(e) ==
    CASE e.variant = "ReadHeaderFailed" -> Some(e.cause)
      [] e.variant = "DecodeHeaderName" -> Some(e.cause)
      [] e.variant = "DecodeHeaderValue" -> Some(e.cause)
      [] e.variant = "StreamReadFailed" -> Some(e.cause)
      [] e.variant = "DecodeContentType" -> Some(e.cause)
      [] e.variant = "DecodeJson" -> Some(e.cause)
      [] e.variant \in {"UnknownField", "IncompleteFieldData",
                        "IncompleteHeaders", "IncompleteStream",
                        "FieldSizeExceeded", "StreamSizeExceeded",
                        "LockFailure", "NoMultipart", "NoBoundary",
                        "MultipleBoundaries"} -> None

\* Fault model: structural equality of the payloads.
EqStructural(a, b) == a = b

\* impl PartialEq for Error :: eq
Eq(a, b) == to_string(a) = to_string(b)

----------------------------------------------------------------------------
\* A caller holds two error values and calls the inspection operations on
\* them.  The values are immutable; each call leaves its result in out.
VARIABLES
    feature_json,   \* the build has the cargo feature "json"
    self,           \* the error value the operations are called on
    other,          \* the right-hand side of ==
    pc,             \* the operation called last
    out,            \* what that call returned
    text            \* the String the last self.to_string() returned

vars == <<feature_json, self, other, pc, out, text>>

NoText == <<"<", "no text", ">">>

Init ==
    /\ feature_json \in BOOLEAN
    /\ self \in Error(feature_json)
    /\ other \in Error(feature_json)
    /\ pc = "constructed"
    /\ out = None
    /\ text = NoText

\* format!("{}", self) / self.to_string()
CallDisplay ==
    /\ pc' = "display"
    /\ out' = DisplayFmt(self)
    /\ text' = out'
    /\ UNCHANGED <<feature_json, self, other>>

\* format!("{:?}", self)
CallDebug ==
    /\ pc' = "debug"
    /\ out' = DebugFmt(self)
    /\ UNCHANGED <<feature_json, self, other, text>>

\* self.source()
CallSource ==
    /\ pc' = "source"
    /\ out' = Source(self)
    /\ UNCHANGED <<feature_json, self, other, text>>

\* self == other
CallEq ==
    /\ pc' = "eq"
    /\ out' = Eq(self, other)
    /\ UNCHANGED <<feature_json, self, other, text>>

Next == CallDisplay \/ CallDebug \/ CallSource \/ CallEq

Spec == Init /\ [][Next]_vars

----------------------------------------------------------------------------
\* Vocabulary of the properties.

\* s occurs in t as a contiguous piece.
Contains(t, s) ==
    \E i \in 0..(Len(t) - Len(s)) : SubSeq(t, i + 1, i + Len(s)) = s

DecimalDigits == {"0","1","2","3","4","5","6","7","8","9"}

DigitValue(c) ==
    CASE c = "0" -> 0 [] c = "1" -> 1 [] c = "2" -> 2 [] c = "3" -> 3
      [] c = "4" -> 4 [] c = "5" -> 5 [] c = "6" -> 6 [] c = "7" -> 7
      [] c = "8" -> 8 [] c = "9" -> 9

RECURSIVE DecimalValue(_)
DecimalValue(ds) ==
    IF ds = <<>> THEN 0
    ELSE 10 * DecimalValue(SubSeq(ds, 1, Len(ds) - 1)) + DigitValue(ds[Len(ds)])

\* ds is the decimal representation of n: digits only, no leading zero.
IsDecimalOf(ds, n) ==
    /\ Len(ds) > 0
    /\ \A i \in 1..Len(ds) : ds[i] \in DecimalDigits
    /\ Len(ds) > 1 => ds[1] # "0"
    /\ DecimalValue(ds) = n

ContainsDecimal(t, n) ==
    \E i \in 1..Len(t) : \E j \in i..Len(t) :
        /\ j - i < 5
        /\ IsDecimalOf(SubSeq(t, i, j), n)

\* Characters that end a line when written to a terminal or a log.
LineBreaks == {"\n", "\r", "U+0085"}

\* The characters "{:?}" does not write as they are.
Rewritten == {"\"", "\\", "\n", "\r", "\t", "U+0085"}

Verbatim(s) == \A i \in 1..Len(s) : s[i] \notin Rewritten

SixCausal ==
    {"ReadHeaderFailed", "DecodeHeaderName", "DecodeHeaderValue",
     "StreamReadFailed", "DecodeContentType", "DecodeJson"}

PayloadRendered ==
    {"UnknownField", "IncompleteFieldData", "DecodeHeaderName",
     "FieldSizeExceeded", "StreamSizeExceeded"}

WithFieldName == {"UnknownField", "IncompleteFieldData", "FieldSizeExceeded"}

PlaceholderToken == <<"<","u","n","k","n","o","w","n",">">>

\* a and b are of one variant and differ at most in parts no rendering
\* shows: the cause and, for DecodeHeaderValue, the raw value.
SameUpToHidden(a, b) ==
    /\ a.variant = b.variant
    /\ a.variant \in SixCausal
    /\ a.variant = "DecodeHeaderName" => a.name = b.name

----------------------------------------------------------------------------
\* C1: source() returns the cause the value was constructed with exactly for
\* the six wrapping variants, and None for every other variant, whatever the
\* payload.
C1_SourceIffCausal ==
    pc = "source" =>
        IF self.variant \in SixCausal
        THEN out = Some(self.cause)
        ELSE out = None

C1_Witness ==
    /\ pc = "source"
    /\ self.variant = "DecodeHeaderValue"
    /\ out = Some("cause2")

\* C2: a == b is true exactly when the two renderings are the same text; two
\* NoBoundary values are equal, NoBoundary and MultipleBoundaries are not,
\* and the parts no rendering shows (causes, raw value bytes) never matter.
C2_EqIffSameText ==
    pc = "eq" =>
        /\ out \in BOOLEAN
        /\ out <=> (DisplayFmt(self) = DisplayFmt(other))
        /\ (self.variant = "NoBoundary" /\ other.variant = "NoBoundary")
              => out
        /\ (self.variant = "NoBoundary" /\ other.variant = "MultipleBoundaries")
              => ~out
        /\ SameUpToHidden(self, other) => out

C2_Witness ==
    /\ pc = "eq"
    /\ self.variant = "DecodeHeaderValue"
    /\ other.variant = "DecodeHeaderValue"
    /\ self.value # other.value
    /\ self.cause # other.cause
    /\ out = TRUE

\* C3: the Debug rendering of every value is the same text as its Display
\* rendering.
C3_DebugIsDisplay ==
    pc = "debug" =>
        /\ out = DisplayFmt(self)
        /\ text # NoText => out = text

C3_Witness ==
    /\ pc = "debug"
    /\ self.variant = "FieldSizeExceeded"
    /\ self.field_name = Some(<<"a", "\"">>)
    /\ text # NoText
    /\ out = text

\* C4: the rendering of a wrapping variant is the same for every cause the
\* value could wrap, and the text of the cause is not part of it.
C4_CauseNotRendered ==
    (pc = "display" /\ self.variant \in SixCausal) =>
        /\ \A c \in Causes : DisplayFmt([self EXCEPT !.cause = c]) = out
        /\ ~Contains(out, CauseText(self.cause))

C4_Witness ==
    /\ pc = "display"
    /\ self.variant = "ReadHeaderFailed"
    /\ self.cause = "cause1"
    /\ out = DisplayFmt([self EXCEPT !.cause = "cause2"])

\* C5 as stated: the rendering of FieldSizeExceeded contains the field name
\* and the decimal limit for every present field name, and the rendering of
\* StreamSizeExceeded contains the decimal limit.
C5_AsStated ==
    pc = "display" =>
        /\ (self.variant = "FieldSizeExceeded" /\ self.field_name # None) =>
              /\ Contains(out, self.field_name[1])
              /\ ContainsDecimal(out, self.limit)
        /\ self.variant = "StreamSizeExceeded" =>
              ContainsDecimal(out, self.limit)

\* C5 amended: the rendering of FieldSizeExceeded contains the decimal limit
\* and the field name in its quoted, escaped form, hence the name itself when
\* no character of it is rewritten by the escaping; the rendering of
\* StreamSizeExceeded contains the decimal limit.
C5_LimitAndEscapedName ==
    pc = "display" =>
        /\ (self.variant = "FieldSizeExceeded" /\ self.field_name # None) =>
              /\ Contains(out, <<"\"">> \o EscapeStr(self.field_name[1])
                                 \o <<"\"">>)
              /\ Verbatim(self.field_name[1])
                    => Contains(out, self.field_name[1])
              /\ ContainsDecimal(out, self.limit)
        /\ self.variant = "StreamSizeExceeded" =>
              ContainsDecimal(out, self.limit)

C5_Witness ==
    /\ pc = "display"
    /\ self.variant = "FieldSizeExceeded"
    /\ self.limit = 1024
    /\ self.field_name = Some(<<"a","v","a","t","a","r">>)
    /\ Contains(out, <<"a","v","a","t","a","r">>)
    /\ Contains(out, <<"1","0","2","4">>)

\* C6: with the field name absent, UnknownField, IncompleteFieldData and
\* FieldSizeExceeded render a non-empty text that has the token <unknown>
\* where the name goes.
C6_AbsentNamePlaceholder ==
    (pc = "display" /\ self.variant \in WithFieldName
        /\ self.field_name = None) =>
        /\ out # <<>>
        /\ Contains(out, PlaceholderToken)
        /\ out = DisplayFmt([self EXCEPT !.field_name = Some(PlaceholderToken)])

C6_Witness ==
    /\ pc = "display"
    /\ self = [variant |-> "UnknownField", field_name |-> None]
    /\ Contains(out, PlaceholderToken)

\* C7 as stated: a DecodeHeaderName value has a cause and its rendering
\* contains the raw name, for every raw name.
C7_AsStated ==
    self.variant = "DecodeHeaderName" =>
        /\ pc = "source" => out # None
        /\ pc = "display" => Contains(out, self.name)

\* C7 amended: a DecodeHeaderName value has a cause, and its rendering
\* contains the raw name in its quoted, escaped form, hence the raw name
\* itself when no character of it is rewritten by the escaping.
C7_CauseAndEscapedName ==
    self.variant = "DecodeHeaderName" =>
        /\ pc = "source" => out = Some(self.cause)
        /\ pc = "display" =>
              /\ Contains(out, <<"\"">> \o EscapeStr(self.name) \o <<"\"">>)
              /\ Verbatim(self.name) => Contains(out, self.name)

C7_Witness ==
    /\ pc = "display"
    /\ self.variant = "DecodeHeaderName"
    /\ self.name = <<"X","U+2013","B","a","d">>
    /\ Contains(out, <<"X","U+2013","B","a","d">>)

\* C8: every variant outside UnknownField, IncompleteFieldData,
\* DecodeHeaderName, FieldSizeExceeded and StreamSizeExceeded renders one
\* phrase, the same for every payload of the variant.
C8_FixedPhrase ==
    (pc = "display" /\ self.variant \notin PayloadRendered) =>
        /\ other.variant = self.variant => DisplayFmt(other) = out
        /\ \A e \in Error(feature_json) :
              e.variant = self.variant => DisplayFmt(e) = out

C8_Witness ==
    /\ pc = "display"
    /\ self.variant = "DecodeHeaderValue"
    /\ other.variant = "DecodeHeaderValue"
    /\ self.value # other.value
    /\ self.cause # other.cause
    /\ DisplayFmt(other) = out

\* C9: the rendering has no line break, also when the name in it has line
\* breaks, and rendering a value again returns the text of the time before.
C9_OneLineDeterministic ==
    /\ [](pc = "display" => \A i \in 1..Len(out) : out[i] \notin LineBreaks)
    /\ [][(pc' = "display" /\ text # NoText) => out' = text]_vars

C9_Witness ==
    /\ pc = "display"
    /\ self.variant = "DecodeHeaderName"
    /\ \E i \in 1..Len(self.name) : self.name[i] \in LineBreaks
    /\ \A i \in 1..Len(out) : out[i] \notin LineBreaks

\* C10: two values that compare equal are of the same variant; values of one
\* variant may be equal with different payloads: an absent field name equals
\* the field name "<unknown>".
C10_EqualImpliesSameVariant ==
    pc = "eq" =>
        /\ out => self.variant = other.variant
        /\ (/\ self.variant \in WithFieldName
            /\ self.field_name = None
            /\ other = [self EXCEPT !.field_name = Some(PlaceholderToken)])
              => out

C10_Witness ==
    /\ pc = "eq"
    /\ self = [variant |-> "IncompleteFieldData", field_name |-> None]
    /\ other = [variant |-> "IncompleteFieldData",
                field_name |-> Some(PlaceholderToken)]
    /\ out = TRUE

====
